---------------------------- MODULE Spec2Model ----------------------------
(***************************************************************************)
(* A model of anuga/utilities/plot_utils.py: read_output / get_output,     *)
(* combine_outputs, get_centroid_values / get_centroids and near_transect. *)
(*                                                                         *)
(* Numbers.  A floating point value is modelled as an exact extended       *)
(* rational <<n, d>>: d > 0 and gcd(n, d) = 1 for a finite value, and      *)
(* <<1,0>>, <<-1,0>>, <<0,0>> for +inf, -inf and nan, the values numpy     *)
(* produces for x/0 and 0/0.  Rounding is not modelled.  Lengths are in    *)
(* units of 1.0e-06 m, so the offset 1.0e-06 of the source is the number   *)
(* 1; momentum is in units of 1.0e-06 m^2/s, so velocity is in m/s.        *)
(***************************************************************************)
EXTENDS Integers, Sequences, FiniteSets, TLC

VARIABLES
    store,                  \* read_output: the sww file `filename` names
    minimum_allowed_height, \* the threshold argument
    pc,                     \* read_output: position in the function body
    fid,                    \* read_output: state of the NetCDF handle
    frame,                  \* read_output: what keeps the locals (fid) alive
    loc,                    \* read_output: values read so far
    ret,                    \* read_output: the tuple returned
    filename_list,          \* combine_outputs: the stores to combine
    ci,                     \* combine_outputs: loop index i
    p1,                     \* combine_outputs: the aggregate being built
    cpc,                    \* combine_outputs: position / outcome
    p,                      \* get_centroids: the vertex Output
    pcent,                  \* get_centroids: the CentroidOutput
    tp,                     \* near_transect: the point set p.x, p.y
    point1, point2, tol,    \* near_transect: arguments
    kind,                   \* near_transect: number type of the endpoints
    tres                    \* near_transect: outcome

vars == <<store, minimum_allowed_height, pc, fid, frame, loc, ret,
          filename_list, ci, p1, cpc, p, pcent,
          tp, point1, point2, tol, kind, tres>>

readerVars   == <<store, pc, fid, frame, loc, ret>>
combineVars  == <<filename_list, ci, p1, cpc>>
centroidVars == <<p, pcent>>
transectVars == <<tp, point1, point2, tol, kind, tres>>

-----------------------------------------------------------------------------
(* Bounds of the model.                                                    *)
MaxT     == 2   \* time steps per store
MaxN     == 2   \* vertices per store read by read_output
MaxFiles == 2   \* length of filename_list
MaxPts   == 2   \* points handed to near_transect
MaxTri   == 1   \* triangles of the mesh handed to get_centroids

(* 1.0e-06 in the length unit of the model.                                *)
EPS == 1

-----------------------------------------------------------------------------
(* Extended rational arithmetic (IEEE-754 special values, exact otherwise) *)

Abs(n)  == IF n < 0 THEN -n ELSE n
Sign(n) == IF n > 0 THEN 1 ELSE IF n < 0 THEN -1 ELSE 0

RECURSIVE GCD(_, _)
GCD(a, b) == IF b = 0 THEN a ELSE GCD(b, a % b)

Norm(n, d) ==
    IF d = 0 THEN <<Sign(n), 0>>
    ELSE LET g == GCD(Abs(n), Abs(d))
             s == Sign(d)
         IN  <<(s * n) \div g, (s * d) \div g>>

R(i)  == <<i, 1>>
Zero  == <<0, 1>>
One   == <<1, 1>>
NaN   == <<0, 0>>
PInf  == <<1, 0>>
NInf  == <<-1, 0>>

IsNaN(a)    == a = NaN
IsInf(a)    == a[2] = 0 /\ a[1] # 0
IsFinite(a) == a[2] # 0

FNeg(a) == <<-a[1], a[2]>>

FAdd(a, b) ==
    IF IsNaN(a) \/ IsNaN(b) THEN NaN
    ELSE IF IsInf(a) THEN (IF IsInf(b) /\ b # a THEN NaN ELSE a)
    ELSE IF IsInf(b) THEN b
    ELSE Norm(a[1] * b[2] + b[1] * a[2], a[2] * b[2])

FSub(a, b) == FAdd(a, FNeg(b))

FMul(a, b) ==
    IF IsNaN(a) \/ IsNaN(b) THEN NaN
    ELSE IF IsInf(a) \/ IsInf(b)
         THEN (IF a[1] = 0 \/ b[1] = 0 THEN NaN
               ELSE <<Sign(a[1]) * Sign(b[1]), 0>>)
    ELSE Norm(a[1] * b[1], a[2] * b[2])

(* numpy true division: x/0 is +-inf, 0/0 is nan, nothing is raised        *)
FDiv(a, b) ==
    IF IsNaN(a) \/ IsNaN(b) THEN NaN
    ELSE IF IsInf(b) THEN (IF IsInf(a) THEN NaN ELSE Zero)
    ELSE IF b[1] = 0 THEN <<Sign(a[1]), 0>>
    ELSE IF IsInf(a) THEN <<Sign(a[1]) * Sign(b[1]), 0>>
    ELSE Norm(a[1] * b[2], a[2] * b[1])

FLt(a, b) ==
    IF IsNaN(a) \/ IsNaN(b) THEN FALSE
    ELSE IF IsInf(a) \/ IsInf(b)
         THEN (IF IsInf(a) /\ IsInf(b) THEN a[1] < b[1]
               ELSE IF IsInf(a) THEN a[1] < 0 ELSE b[1] > 0)
    ELSE a[1] * b[2] < b[1] * a[2]

FGt(a, b) == FLt(b, a)

FAbs(a) == <<Abs(a[1]), a[2]>>

(* a boolean array element used as a factor: True is 1.0, False is 0.0     *)
FBool(w) == IF w THEN One ELSE Zero

(* x**0.5 of a sum of squares, kept exact: the value is the non-negative   *)
(* root of the radicand (nan and +inf are their own roots)                 *)
FRoot(a) == [radicand |-> a]

(* the exact root of a rational that is a perfect square                   *)
ISqrt(n) == CHOOSE r \in 0..n : r * r = n
IsSquare(n) == \E r \in 0..n : r * r = n
FSqrt(a) == <<ISqrt(a[1]), ISqrt(a[2])>>

-----------------------------------------------------------------------------
(* The sww store: named variables x, y, time, volumes, elevation, stage,   *)
(* xmomentum, ymomentum.  `vars` is the set of names the file holds.       *)

ReadOrder == <<"x", "y", "stage", "elevation", "xmomentum", "ymomentum",
               "time", "volumes">>
Required == {ReadOrder[k] : k \in 1..Len(ReadOrder)}

(* A store with n vertices whose rows follow from per-vertex start values: *)
(* the stage rises one unit per step and the momentum grows linearly.  The *)
(* four leading dimensions ts, tx, ty, tt are given separately.            *)
MkStore(xs, ys, vols, elev, stage0, xmom0, ymom0, ts, tx, ty, tt, t0) ==
    [vars      |-> Required,
     x         |-> xs,
     y         |-> ys,
     volumes   |-> vols,
     elevation |-> elev,
     stage     |-> [t \in 1..ts |-> [i \in 1..Len(stage0) |->
                       FAdd(stage0[i], R(t - 1))]],
     xmomentum |-> [t \in 1..tx |-> [i \in 1..Len(xmom0) |->
                       FMul(xmom0[i], R(t))]],
     ymomentum |-> [t \in 1..ty |-> [i \in 1..Len(ymom0) |->
                       FMul(ymom0[i], R(t))]],
     time      |-> [t \in 1..tt |-> R(t0 + t - 1)]]

-----------------------------------------------------------------------------
(* read_output, lines 140-148: velocity = momentum/depth                   *)

(* one element of line 145 / 146                                           *)
Velocity(mom, stg, el, h) ==
    FMul(FDiv(mom, FAdd(FSub(stg, el), R(EPS))),
         FBool(FGt(stg, FAdd(el, h))))

(* xvel[i,:] = xmom[i,:]/(stage[i,:]-elev+1.0e-06)*(stage[i,:]>elev+h)      *)
VelocityRow(momrow, stagerow, elev, h) ==
    [j \in 1..Len(momrow) |-> Velocity(momrow[j], stagerow[j], elev[j], h)]

(* xmom*0.0                                                                *)
ZeroLike(a) == [i \in 1..Len(a) |-> [j \in 1..Len(a[i]) |-> FMul(a[i][j], Zero)]]

(* the loop of lines 144-146 runs i over range(xmom.shape[0]) for both     *)
(* components: rows of yvel past that range keep the 0.0 of line 142       *)
XVel(xmom, stage, elev, h) ==
    [i \in 1..Len(xmom) |-> VelocityRow(xmom[i], stage[i], elev, h)]

YVel(xmom, ymom, stage, elev, h) ==
    [i \in 1..Len(ymom) |->
        IF i <= Len(xmom) THEN VelocityRow(ymom[i], stage[i], elev, h)
        ELSE ZeroLike(ymom)[i]]

(* stage[i,:] or ymom[i,:] with i past the last row raises IndexError      *)
LoopIndexError(xmom, ymom, stage) ==
    Len(xmom) > Len(stage) \/ Len(xmom) > Len(ymom)

(* line 148 broadcasts xvel against yvel along the time axis: the row      *)
(* counts must agree unless one of them is 1                               *)
BroadcastRows(a, b) ==
    IF Len(a) = Len(b) THEN Len(a)
    ELSE IF Len(a) = 1 THEN Len(b)
    ELSE IF Len(b) = 1 THEN Len(a)
    ELSE -1

Row(a, i) == IF Len(a) = 1 THEN a[1] ELSE a[i]

Magnitude(a, b) == FRoot(FAdd(FMul(a, a), FMul(b, b)))

(* vel = (xvel**2+yvel**2)**0.5                                            *)
Vel(xvel, yvel) ==
    [i \in 1..BroadcastRows(xvel, yvel) |->
        [j \in 1..Len(Row(xvel, i)) |->
            Magnitude(Row(xvel, i)[j], Row(yvel, i)[j])]]

(* the tuple of line 150, as the fields get_output stores (lines 92-95)    *)
Output(x, y, time, vols, stage, elev, xmom, ymom, h) ==
    LET xv == XVel(xmom, stage, elev, h)
        yv == YVel(xmom, ymom, stage, elev, h)
    IN  [x |-> x, y |-> y, time |-> time, vols |-> vols, stage |-> stage,
         elev |-> elev, xmom |-> xmom, ymom |-> ymom,
         xvel |-> xv, yvel |-> yv, vel |-> Vel(xv, yv),
         minimum_allowed_height |-> h]

(* get_output(filename, h) as one step: the exception raised, or "ok"      *)
ReadStatus(s) ==
    IF ~(Required \subseteq s.vars) THEN "KeyError"
    ELSE IF LoopIndexError(s.xmomentum, s.ymomentum, s.stage) THEN "IndexError"
    ELSE IF BroadcastRows(s.xmomentum, s.ymomentum) < 0 THEN "ValueError"
    ELSE "ok"

ReadOutput(s, h) ==
    Output(s.x, s.y, s.time, s.volumes, s.stage, s.elevation,
           s.xmomentum, s.ymomentum, h)

-----------------------------------------------------------------------------
(* The stores read_output is run on.                                       *)

StageVals == {R(-1), R(0), R(3)}
ElevVals  == {R(0), R(1)}
XmomVals  == {R(0), R(2)}
YmomVals  == {R(0), R(-3)}
HminVals  == {R(1), R(2)}

Arrays(n, S) == [1..n -> S]

(* vertex i sits at (i, 0); one triangle over the first and last vertex    *)
LineX(n) == [i \in 1..n |-> R(i)]
LineY(n) == [i \in 1..n |-> R(0)]
OneTriangle(n) == << <<0, 0, n - 1>> >>

BaseElev  == <<R(0), R(1)>>
BaseStage == <<R(3), R(0)>>
BaseXmom  == <<R(2), R(2)>>
BaseYmom  == <<R(-3), R(0)>>

(* well-formed stores, every combination of cell values                    *)
ValueStore(s) ==
    \E n \in 1..MaxN, t \in 1..MaxT :
        \E el \in Arrays(n, ElevVals), st \in Arrays(n, StageVals),
           xm \in Arrays(n, XmomVals), ym \in Arrays(n, YmomVals) :
            s = MkStore(LineX(n), LineY(n), OneTriangle(n), el, st, xm, ym,
                        t, t, t, t, 0)

(* stores whose leading dimensions or connectivity may be inconsistent     *)
VolsChoices == { << <<0, 1, 1>> >>, << <<0, 1, 2>> >>, << <<-1, 0, 1>> >>,
                 << <<0, 1, -3>> >> }
ShapeStore(s) ==
    \E vols \in VolsChoices, ts \in 0..MaxT, tx \in 0..MaxT,
       ty \in 0..MaxT, tt \in 0..MaxT :
        s = MkStore(LineX(2), LineY(2), vols, BaseElev, BaseStage, BaseXmom,
                    BaseYmom, ts, tx, ty, tt, 0)

BaseStore ==
    MkStore(LineX(2), LineY(2), << <<0, 1, 1>> >>, BaseElev, BaseStage,
            BaseXmom, BaseYmom, 1, 1, 1, 1, 0)

(* stores that lack one required variable                                  *)
MissingStore(s) ==
    \E v \in Required : s = [BaseStore EXCEPT !.vars = Required \ {v}]

ReaderStore(s) == ValueStore(s) \/ ShapeStore(s) \/ MissingStore(s)

-----------------------------------------------------------------------------
(* read_output statement by statement (lines 98-150)                       *)

Unused == "unused"

ReaderIdle ==
    /\ pc = "start" /\ fid = "none" /\ frame = "none"
    /\ loc = <<>> /\ ret = Unused

InitReader ==
    /\ ReaderStore(store)
    /\ minimum_allowed_height \in HminVals
    /\ ReaderIdle
    /\ filename_list = <<>> /\ ci = 0 /\ p1 = Unused /\ cpc = Unused
    /\ p = Unused /\ pcent = Unused
    /\ tp = Unused /\ point1 = Unused /\ point2 = Unused /\ tol = Unused
    /\ kind = Unused /\ tres = Unused

others == <<minimum_allowed_height, combineVars, centroidVars, transectVars>>

(* line 112: fid=NetCDFFile(filename)                                      *)
Open ==
    /\ pc = "start"
    /\ fid' = "open"
    /\ frame' = "running"
    /\ pc' = "read"
    /\ UNCHANGED <<store, loc, ret, others>>

(* lines 116-137: fid.variables[name].getValue(), in the order of the      *)
(* source; a name the file lacks raises KeyError                           *)
ReadVariable ==
    /\ pc = "read"
    /\ LET name == ReadOrder[Len(loc) + 1] IN
       IF name \in store.vars
       THEN /\ loc' = Append(loc, store[name])
            /\ pc' = IF Len(loc) + 1 = Len(ReadOrder) THEN "compute" ELSE "read"
            /\ UNCHANGED <<frame, ret>>
       ELSE /\ pc' = "raised"
            /\ ret' = "KeyError"
            /\ frame' = "traceback"
            /\ UNCHANGED loc
    /\ UNCHANGED <<store, fid, others>>

(* lines 141-150: the velocities, then the return                          *)
ComputeAndReturn ==
    /\ pc = "compute"
    /\ LET x == loc[1]  y == loc[2]  stage == loc[3]  elev == loc[4]
           xmom == loc[5]  ymom == loc[6]  time == loc[7]  vols == loc[8]
       IN  IF LoopIndexError(xmom, ymom, stage)
           THEN /\ pc' = "raised" /\ ret' = "IndexError"
                /\ frame' = "traceback"
           ELSE IF BroadcastRows(xmom, ymom) < 0
           THEN /\ pc' = "raised" /\ ret' = "ValueError"
                /\ frame' = "traceback"
           ELSE /\ pc' = "returned"
                /\ ret' = Output(x, y, time, vols, stage, elev, xmom, ymom,
                                 minimum_allowed_height)
                /\ frame' = "dead"
    /\ UNCHANGED <<store, fid, loc, others>>

(* the caller is done with the exception: the traceback, and with it the   *)
(* frame of read_output and its local fid, is dropped                      *)
DropTraceback ==
    /\ pc = "raised" /\ frame = "traceback"
    /\ frame' = "dead"
    /\ UNCHANGED <<store, pc, fid, loc, ret, others>>

(* read_output never calls fid.close(): the handle is closed only when the *)
(* interpreter reclaims the unreferenced NetCDFFile object                 *)
Finalize ==
    /\ frame = "dead" /\ fid = "open"
    /\ fid' = "closed"
    /\ UNCHANGED <<store, pc, frame, loc, ret, others>>

NextReader == Open \/ ReadVariable \/ ComputeAndReturn \/ DropTraceback \/ Finalize

SpecReader == InitReader /\ [][NextReader]_vars

-----------------------------------------------------------------------------
(* Properties of read_output / get_output                                  *)

Dry(stg, el, h) == ~FGt(stg, FAdd(el, h))

CellsOf(o) ==
    { <<t, i>> \in (1..MaxT + 1) \X (1..MaxN + 1) :
        /\ t \in DOMAIN o.stage /\ t \in DOMAIN o.xvel
        /\ t \in DOMAIN o.yvel /\ t \in DOMAIN o.vel
        /\ i \in DOMAIN o.elev }

(* C1: in the Output read_output returns, every cell with                  *)
(* stage <= elev + minimum_allowed_height has xvel, yvel and vel exactly   *)
(* 0, whatever the momentum and whatever the depth at or below the         *)
(* threshold (negative depths and depth + 1.0e-06 = 0 included).           *)
C1_DryVelocityIsZero ==
    pc = "returned" =>
        \A c \in CellsOf(ret) :
            Dry(ret.stage[c[1]][c[2]], ret.elev[c[2]], ret.minimum_allowed_height)
            => /\ ret.xvel[c[1]][c[2]] = Zero
               /\ ret.yvel[c[1]][c[2]] = Zero
               /\ ret.vel[c[1]][c[2]] = FRoot(Zero)

(* what the code does guarantee: a dry cell whose denominator              *)
(* depth + 1.0e-06 is not zero has velocity 0                              *)
C1_DryVelocityIsZeroOffPole ==
    pc = "returned" =>
        \A c \in CellsOf(ret) :
            /\ Dry(ret.stage[c[1]][c[2]], ret.elev[c[2]], ret.minimum_allowed_height)
            /\ FAdd(FSub(ret.stage[c[1]][c[2]], ret.elev[c[2]]), R(EPS)) # Zero
            => /\ ret.xvel[c[1]][c[2]] = Zero
               /\ ret.yvel[c[1]][c[2]] = Zero
               /\ ret.vel[c[1]][c[2]] = FRoot(Zero)

(* C8: every call of read_output that opened the store has released it     *)
(* when the call ends, by return or by exception.                          *)
C8_StoreReleasedAtExit ==
    pc \in {"returned", "raised"} => fid # "open"

ValidStore(s) ==
    /\ Required \subseteq s.vars
    /\ Len(s.stage) = Len(s.time)
    /\ Len(s.xmomentum) = Len(s.time)
    /\ Len(s.ymomentum) = Len(s.time)
    /\ \A m \in DOMAIN s.volumes : \A k \in 1..3 :
          s.volumes[m][k] >= 0 /\ s.volumes[m][k] < Len(s.x)

(* C9: get_output returns an Output only for a store that has every        *)
(* required variable, agreeing leading dimensions of stage, xmomentum,     *)
(* ymomentum and time, and connectivity entries all in [0, N).             *)
C9_InvalidStoreIsRejected ==
    pc = "returned" => ValidStore(store)

(* the part of C9 the code does enforce: a missing variable, or fewer rows *)
(* of stage or ymomentum than of xmomentum, ends in an exception           *)
C9_MissingVariableIsRejected ==
    pc = "returned" =>
        /\ Required \subseteq store.vars
        /\ Len(store.xmomentum) <= Len(store.stage)
        /\ Len(store.xmomentum) <= Len(store.ymomentum)

-----------------------------------------------------------------------------
(* combine_outputs.__init__ (lines 51-80)                                  *)

(* (a == b).all() on numpy arrays: elementwise when the lengths agree,     *)
(* broadcast when one array has a single row, and no array of booleans at  *)
(* all (the assert cannot pass) when the shapes do not fit                 *)
AllEqual(a, b) ==
    IF Len(a) = Len(b) THEN \A i \in 1..Len(a) : a[i] = b[i]
    ELSE IF Len(a) = 1 THEN \A i \in 1..Len(b) : a[1] = b[i]
    ELSE IF Len(b) = 1 THEN \A i \in 1..Len(a) : a[i] = b[1]
    ELSE FALSE

(* the three asserts of lines 66-68                                        *)
MeshAsserts(q, r) ==
    /\ AllEqual(q.x, r.x)
    /\ AllEqual(q.y, r.y)
    /\ AllEqual(q.vols, r.vols)

NpAppendReversed(a, b) == b \o a

(* numpy.append(a, b) and numpy.append(a, b, axis=0)                       *)
NpAppend(a, b) == a \o b

Width(a) == Len(a[1])

(* numpy.append(..., axis=0) raises ValueError unless the rows of both     *)
(* arrays have the same length                                             *)
AppendFits(q, r) ==
    \A f \in {"stage", "xmom", "ymom", "xvel", "yvel", "vel"} :
        Width(q[f]) = Width(r[f])

(* lines 69-75                                                             *)
AppendOutput(q, r) ==
    [q EXCEPT !.time  = NpAppend(q.time, r.time),
              !.stage = NpAppend(q.stage, r.stage),
              !.xmom  = NpAppend(q.xmom, r.xmom),
              !.ymom  = NpAppend(q.ymom, r.ymom),
              !.xvel  = NpAppend(q.xvel, r.xvel),
              !.yvel  = NpAppend(q.yvel, r.yvel),
              !.vel   = NpAppend(q.vel, r.vel)]

(* The sww files handed to combine_outputs: the same mesh at two time      *)
(* ranges, and meshes that differ from it in x, y, vols, elev or size.     *)
Mesh(xs, ys, vols, elev, st, xm, ym, t, t0) ==
    MkStore(xs, ys, vols, elev, st, xm, ym, t, t, t, t, t0)

Tri2 == << <<0, 1, 1>> >>
Pt1  == << <<0, 0, 0>> >>

CombineSources ==
    { Mesh(LineX(2), LineY(2), Tri2, BaseElev, BaseStage, BaseXmom, BaseYmom, 1, 0),
      Mesh(LineX(2), LineY(2), Tri2, BaseElev, <<R(0), R(3)>>, <<R(0), R(2)>>,
           BaseYmom, MaxT, 5),
      Mesh(<<R(1), R(3)>>, LineY(2), Tri2, BaseElev, BaseStage, BaseXmom, BaseYmom, 1, 0),
      Mesh(LineX(2), <<R(0), R(1)>>, Tri2, BaseElev, BaseStage, BaseXmom, BaseYmom, 1, 0),
      Mesh(LineX(2), LineY(2), << <<1, 0, 1>> >>, BaseElev, BaseStage, BaseXmom,
           BaseYmom, 1, 0),
      Mesh(LineX(2), LineY(2), Tri2, <<R(0), R(0)>>, BaseStage, BaseXmom, BaseYmom, 1, 0),
      Mesh(LineX(3), LineY(3), Tri2, <<R(0), R(1), R(0)>>, <<R(3), R(0), R(0)>>,
           <<R(2), R(2), R(0)>>, <<R(-3), R(0), R(0)>>, 1, 0),
      Mesh(<<R(1)>>, <<R(0)>>, Pt1, <<R(0)>>, <<R(3)>>, <<R(2)>>, <<R(-3)>>, 1, 0),
      Mesh(<<R(1), R(1)>>, <<R(0), R(0)>>, Pt1, BaseElev, BaseStage, BaseXmom,
           BaseYmom, 1, 0) }

FileLists == UNION { [1..k -> CombineSources] : k \in 1..MaxFiles }

InitCombine ==
    /\ filename_list \in FileLists
    /\ minimum_allowed_height \in HminVals
    /\ ci = 0 /\ p1 = Unused /\ cpc = "loop"
    /\ p = Unused /\ pcent = Unused
    /\ store = Unused /\ ReaderIdle
    /\ tp = Unused /\ point1 = Unused /\ point2 = Unused /\ tol = Unused
    /\ kind = Unused /\ tres = Unused

combineOthers == <<filename_list, minimum_allowed_height, readerVars, pcent,
                   transectVars>>

(* one iteration of the loop of line 56, for i = 0 (lines 59-62)           *)
CombineFirst ==
    /\ cpc = "loop" /\ ci = 0 /\ ci < Len(filename_list)
    /\ LET f == filename_list[ci + 1] IN
       IF ReadStatus(f) # "ok"
       THEN /\ cpc' = ReadStatus(f) /\ UNCHANGED <<p1, ci>>
       ELSE /\ p1' = ReadOutput(f, minimum_allowed_height)
            /\ ci' = ci + 1
            /\ UNCHANGED cpc
    /\ UNCHANGED <<p, combineOthers>>

(* one iteration of the loop of line 56, for i > 0 (lines 59, 63-75)       *)
CombineAppend ==
    /\ cpc = "loop" /\ ci > 0 /\ ci < Len(filename_list)
    /\ LET f     == filename_list[ci + 1]
           p_tmp == ReadOutput(f, minimum_allowed_height)
       IN  IF ReadStatus(f) # "ok"
           THEN /\ cpc' = ReadStatus(f) /\ UNCHANGED <<p1, ci>>
           ELSE IF ~MeshAsserts(p1, p_tmp)
           THEN /\ cpc' = "AssertionError" /\ UNCHANGED <<p1, ci>>
           ELSE IF ~AppendFits(p1, p_tmp)
           THEN /\ cpc' = "ValueError" /\ UNCHANGED <<p1, ci>>
           ELSE /\ p1' = AppendOutput(p1, p_tmp)
                /\ ci' = ci + 1
                /\ UNCHANGED cpc
    /\ UNCHANGED <<p, combineOthers>>

(* lines 77-80: self.x, ..., self.minimum_allowed_height = p1.x, ...       *)
CombineAssign ==
    /\ cpc = "loop" /\ ci = Len(filename_list)
    /\ p' = p1
    /\ cpc' = "done"
    /\ UNCHANGED <<p1, ci, combineOthers>>

NextCombine == CombineFirst \/ CombineAppend \/ CombineAssign

SpecCombine == InitCombine /\ [][NextCombine]_vars

CombineFailed == cpc \in {"KeyError", "IndexError", "ValueError", "AssertionError"}

Sources == [k \in 1..Len(filename_list) |->
               ReadOutput(filename_list[k], minimum_allowed_height)]

(* identical vertex coordinates, connectivity and elevation in all sources *)
MeshConsistent ==
    \A k \in 2..Len(filename_list) :
        /\ Sources[k].x = Sources[1].x
        /\ Sources[k].y = Sources[1].y
        /\ Sources[k].vols = Sources[1].vols
        /\ Sources[k].elev = Sources[1].elev

(* C2: combine_outputs fails whenever a later source differs from the      *)
(* first in x, y, vols or elevation (a different vertex count included),   *)
(* and returns an aggregate only when all four are identical.              *)
C2_InconsistentMeshFails ==
    cpc = "done" => MeshConsistent

(* what the asserts do enforce: x, y and vols                              *)
C2_InconsistentXYVolsFails ==
    cpc = "done" =>
        \A k \in 2..Len(filename_list) :
            /\ Sources[k].x = Sources[1].x
            /\ Sources[k].y = Sources[1].y
            /\ Sources[k].vols = Sources[1].vols

TimeFields == {"time", "stage", "xmom", "ymom", "xvel", "yvel", "vel"}

(* rows of field f of sources 1..k, one after the other                    *)
RECURSIVE Concatenation(_, _)
Concatenation(f, k) ==
    IF k = 0 THEN <<>>
    ELSE LET before == Concatenation(f, k - 1)
             rows   == Sources[k][f]
         IN  [j \in 1..(Len(before) + Len(rows)) |->
                 IF j <= Len(before) THEN before[j] ELSE rows[j - Len(before)]]

(* C3: for mesh-consistent sources combine_outputs returns, and every      *)
(* time-indexed field of its Output is the concatenation of the            *)
(* get_output results in list order; for one source the Output is that of  *)
(* get_output.                                                             *)
C3_ConcatenationInListOrder ==
    /\ cpc = "done" =>
          /\ \A f \in TimeFields : p[f] = Concatenation(f, Len(filename_list))
          /\ Len(filename_list) = 1 => p = Sources[1]
    /\ CombineFailed => ~MeshConsistent

C3_Witness ==
    /\ cpc = "done"
    /\ Len(filename_list) >= 2
    /\ filename_list[1] # filename_list[2]
    /\ Len(p.time) >= 3

C3_WitnessSingle ==
    cpc = "done" /\ Len(filename_list) = 1

-----------------------------------------------------------------------------
(* get_centroid_values (lines 170-232)                                     *)

(* a[v] for a numpy array a and a connectivity entry v (0-based)           *)
At(a, v) == a[v + 1]

(* (F[vols0]+F[vols1]+F[vols2])/3.0 for one triangle                       *)
Mean3(a, tri) ==
    FDiv(FAdd(FAdd(At(a, tri[1]), At(a, tri[2])), At(a, tri[3])), R(3))

(* lines 189-190, 193: a vertex array averaged onto the triangles          *)
CentroidArray(a, vols) == [m \in 1..Len(vols) |-> Mean3(a, vols[m])]

(* lines 192, 198-199, 214-215: the same for every time step               *)
CentroidSeries(a, vols) ==
    [t \in 1..Len(a) |-> CentroidArray(a[t], vols)]

(* lines 208-211: momentum re-derived from the centroid velocity           *)
CentroidMomentum(v, stg, el, h) ==
    FMul(FMul(v, FAdd(FSub(stg, el), R(EPS))), FBool(FGt(stg, FAdd(el, h))))

(* lines 224-225: velocity derived from the centroid momentum              *)
CentroidVelocity(mom, stg, el, h) ==
    FMul(FDiv(mom, FAdd(FSub(stg, el), R(EPS))), FBool(FGt(stg, FAdd(el, h))))

(* lines 202-211: xmom_cent=stage_cent*0.0, then the loop over             *)
(* range(len(p.time)) filling row i                                        *)
MomentumRows(vel_cent, stage_cent, elev_cent, h, t) ==
    [i \in 1..Len(stage_cent) |->
        [m \in 1..Len(stage_cent[i]) |->
            IF i <= t
            THEN CentroidMomentum(vel_cent[i][m], stage_cent[i][m], elev_cent[m], h)
            ELSE FMul(stage_cent[i][m], Zero)]]

(* lines 218-225: xvel_cent=stage_cent*0.0, then the loop over             *)
(* range(len(p.time)) filling row i                                        *)
VelocityRows(mom_cent, stage_cent, elev_cent, h, t) ==
    [i \in 1..Len(stage_cent) |->
        [m \in 1..Len(stage_cent[i]) |->
            IF i <= t
            THEN CentroidVelocity(mom_cent[i][m], stage_cent[i][m], elev_cent[m], h)
            ELSE FMul(stage_cent[i][m], Zero)]]

(* line 229                                                                *)
CentroidSpeed(xv, yv) ==
    [i \in 1..Len(xv) |-> [m \in 1..Len(xv[i]) |-> Magnitude(xv[i][m], yv[i][m])]]

GetCentroidValues(q, velocity_extrapolation) ==
    LET x_cent     == CentroidArray(q.x, q.vols)
        y_cent     == CentroidArray(q.y, q.vols)
        stage_cent == CentroidSeries(q.stage, q.vols)
        elev_cent  == CentroidArray(q.elev, q.vols)
        h          == q.minimum_allowed_height
        t          == Len(q.time)
        xvel_cent  == IF velocity_extrapolation
                      THEN CentroidSeries(q.xvel, q.vols)
                      ELSE VelocityRows(CentroidSeries(q.xmom, q.vols),
                                    stage_cent, elev_cent, h, t)
        yvel_cent  == IF velocity_extrapolation
                      THEN CentroidSeries(q.yvel, q.vols)
                      ELSE VelocityRows(CentroidSeries(q.ymom, q.vols),
                                    stage_cent, elev_cent, h, t)
        xmom_cent  == IF velocity_extrapolation
                      THEN MomentumRows(xvel_cent,
                                    stage_cent, elev_cent, h, t)
                      ELSE CentroidSeries(q.xmom, q.vols)
        ymom_cent  == IF velocity_extrapolation
                      THEN MomentumRows(yvel_cent,
                                    stage_cent, elev_cent, h, t)
                      ELSE CentroidSeries(q.ymom, q.vols)
    IN  [time |-> q.time, x |-> x_cent, y |-> y_cent, stage |-> stage_cent,
         xmom |-> xmom_cent, ymom |-> ymom_cent, elev |-> elev_cent,
         xvel |-> xvel_cent, yvel |-> yvel_cent,
         vel |-> CentroidSpeed(xvel_cent, yvel_cent)]

(* The meshes handed to get_centroids: the vertices (0,0), (3,0), (0,3)    *)
(* and up to MaxTri triangles over them.                                   *)
TriX == <<R(0), R(3), R(0)>>
TriY == <<R(0), R(0), R(3)>>
Triangles == { <<0, 1, 2>>, <<1, 2, 2>> }
VolsLists == UNION { [1..m -> Triangles] : m \in 1..MaxTri }

CStageVals == {R(-3), R(0), R(9)}
CElevVals  == {R(0), R(3)}
CXmomVals  == {R(0), R(10)}
CYmoms     == { <<R(0), R(0), R(0)>>, <<R(-10), R(10), R(5)>> }

CentroidStore(s) ==
    \E vols \in VolsLists, t \in 1..MaxT, ym \in CYmoms :
        \E el \in Arrays(3, CElevVals), st \in Arrays(3, CStageVals),
           xm \in Arrays(3, CXmomVals) :
            s = Mesh(TriX, TriY, vols, el, st, xm, ym, t, 0)

InitCentroid ==
    /\ CentroidStore(store)
    /\ minimum_allowed_height \in HminVals
    /\ pc = "start" /\ fid = "none" /\ frame = "none"
    /\ loc = <<>> /\ ret = Unused
    /\ p = Unused /\ pcent = Unused
    /\ filename_list = <<>> /\ ci = 0 /\ p1 = Unused /\ cpc = Unused
    /\ tp = Unused /\ point1 = Unused /\ point2 = Unused /\ tol = Unused
    /\ kind = Unused /\ tres = Unused

(* p = get_output(filename, minimum_allowed_height), lines 91-95           *)
GetOutput ==
    /\ pc = "start"
    /\ ReadStatus(store) = "ok"
    /\ p' = ReadOutput(store, minimum_allowed_height)
    /\ pc' = "output"
    /\ UNCHANGED <<store, minimum_allowed_height, fid, frame, loc, ret, pcent,
                   combineVars, transectVars>>

(* pc = get_centroids(p, velocity_extrapolation), lines 163-167; the flag  *)
(* is kept in loc                                                          *)
GetCentroids ==
    /\ pc = "output"
    /\ \E velocity_extrapolation \in BOOLEAN :
          /\ pcent' = GetCentroidValues(p, velocity_extrapolation)
          /\ loc' = <<velocity_extrapolation>>
    /\ pc' = "centroids"
    /\ UNCHANGED <<store, minimum_allowed_height, fid, frame, ret, p,
                   combineVars, transectVars>>

NextCentroid == GetOutput \/ GetCentroids

SpecCentroid == InitCentroid /\ [][NextCentroid]_vars

-----------------------------------------------------------------------------
(* Properties of get_centroids                                             *)

CentroidCells ==
    { <<t, m>> \in (1..MaxT + 1) \X (1..MaxTri + 1) :
        t \in DOMAIN pcent.stage /\ m \in DOMAIN pcent.elev }

Third(a, b, c) == FDiv(FAdd(FAdd(a, b), c), R(3))

VertexMean(a, m) ==
    Third(a[p.vols[m][1] + 1], a[p.vols[m][2] + 1], a[p.vols[m][3] + 1])

(* the VelocityDerivation formula as the claim states it                   *)
Derivation(mom, stg, el, h) ==
    IF FGt(stg, FAdd(el, h)) THEN FDiv(mom, FAdd(FSub(stg, el), R(EPS)))
    ELSE Zero

MeansAreVertexMeans(c) ==
    /\ pcent.stage[c[1]][c[2]] = VertexMean(p.stage[c[1]], c[2])
    /\ pcent.elev[c[2]] = VertexMean(p.elev, c[2])
    /\ pcent.xmom[c[1]][c[2]] = VertexMean(p.xmom[c[1]], c[2])
    /\ pcent.ymom[c[1]][c[2]] = VertexMean(p.ymom[c[1]], c[2])

(* C7: with velocity_extrapolation = False, centroid stage, elevation and  *)
(* momentum are the means of the three vertex values and the centroid      *)
(* velocity is momentum/(depth + 1.0e-06) where the centroid is wet and 0  *)
(* where it is dry, computed from the centroid values.                     *)
C7_CentroidVelocityFromCentroidValues ==
    (pc = "centroids" /\ loc = <<FALSE>>) =>
        \A c \in CentroidCells :
            /\ MeansAreVertexMeans(c)
            /\ pcent.xvel[c[1]][c[2]] =
                  Derivation(pcent.xmom[c[1]][c[2]], pcent.stage[c[1]][c[2]],
                             pcent.elev[c[2]], p.minimum_allowed_height)
            /\ pcent.yvel[c[1]][c[2]] =
                  Derivation(pcent.ymom[c[1]][c[2]], pcent.stage[c[1]][c[2]],
                             pcent.elev[c[2]], p.minimum_allowed_height)

CentroidPole(c) ==
    FAdd(FSub(pcent.stage[c[1]][c[2]], pcent.elev[c[2]]), R(EPS)) = Zero

(* C7 holds for every centroid whose denominator depth + 1.0e-06 is not 0  *)
C7_CentroidVelocityOffPole ==
    (pc = "centroids" /\ loc = <<FALSE>>) =>
        \A c \in CentroidCells :
            /\ MeansAreVertexMeans(c)
            /\ ~CentroidPole(c) =>
                /\ pcent.xvel[c[1]][c[2]] =
                      Derivation(pcent.xmom[c[1]][c[2]], pcent.stage[c[1]][c[2]],
                                 pcent.elev[c[2]], p.minimum_allowed_height)
                /\ pcent.yvel[c[1]][c[2]] =
                      Derivation(pcent.ymom[c[1]][c[2]], pcent.stage[c[1]][c[2]],
                                 pcent.elev[c[2]], p.minimum_allowed_height)

DryCentroid(c) ==
    Dry(pcent.stage[c[1]][c[2]], pcent.elev[c[2]], p.minimum_allowed_height)

ZeroVelocity(c) ==
    /\ pcent.xvel[c[1]][c[2]] = Zero
    /\ pcent.yvel[c[1]][c[2]] = Zero
    /\ pcent.vel[c[1]][c[2]] = FRoot(Zero)

(* C10: whatever velocity_extrapolation is, a dry centroid has centroid    *)
(* xvel, yvel and vel equal to 0, also when some vertex of the triangle is *)
(* wet and moving.                                                         *)
C10_DryCentroidVelocityIsZero ==
    pc = "centroids" => \A c \in CentroidCells : DryCentroid(c) => ZeroVelocity(c)

(* C10 restricted to the velocity-extrapolation path                       *)
C10_DryCentroidExtrapolated ==
    (pc = "centroids" /\ loc = <<TRUE>>) =>
        \A c \in CentroidCells : DryCentroid(c) => ZeroVelocity(c)

(* what the code guarantees on that path: the momentum of a dry centroid   *)
(* is 0 unless the averaged vertex velocity is nan                         *)
C10_DryCentroidMomentumIsZero ==
    (pc = "centroids" /\ loc = <<TRUE>>) =>
        \A c \in CentroidCells :
            (DryCentroid(c) /\ ~IsNaN(pcent.xvel[c[1]][c[2]]))
                => pcent.xmom[c[1]][c[2]] = Zero

-----------------------------------------------------------------------------
(* near_transect (lines 281-338).  The endpoints are floats: either Python *)
(* floats, whose division by zero raises ZeroDivisionError, or numpy       *)
(* float64 scalars, whose division by zero gives nan or inf.               *)

Kinds == {"float", "numpy.float64"}

(* lines 303-315: the line a*x + b*y + c = 0                               *)
LineEquation(x1, y1, x2, y2) ==
    IF x1 # x2
    THEN LET gradient  == FDiv(FSub(y2, y1), FSub(x2, x1))
             intercept == FSub(y1, FMul(gradient, x1))
         IN  [a |-> FNeg(gradient), b |-> One, c |-> FNeg(intercept)]
    ELSE [a |-> One, b |-> Zero, c |-> FNeg(x2)]

(* lines 318-319: abs(p.x*a + p.y*b + c)*inv_denom for one point           *)
Distance(ln, x, y) ==
    LET inv_denom == FDiv(One, FSqrt(FAdd(FMul(ln.a, ln.a), FMul(ln.b, ln.b))))
    IN  FMul(FAbs(FAdd(FAdd(FMul(x, ln.a), FMul(y, ln.b)), ln.c)), inv_denom)

IsNearOrAt(d, t) == ~FLt(t, d)

(* line 321: distp < tol                                                   *)
IsNear(d, t) == FLt(d, t)

(* the ascending sequence of the elements of a set of indices, as          *)
(* nonzero() returns them                                                  *)
RECURSIVE Ascending(_)
Ascending(S) ==
    IF S = {} THEN <<>>
    ELSE LET m == CHOOSE i \in S : \A j \in S : i <= j
         IN  <<m>> \o Ascending(S \ {m})

(* line 321: (distp<tol).nonzero()[0], indices counted from 0              *)
NearPoints(q, ln, t) ==
    Ascending({ i \in 0..(Len(q.x) - 1) :
                  IsNear(Distance(ln, q.x[i + 1], q.y[i + 1]), t) })

(* lines 326-330: g1x, g1y as the code leaves them                         *)
Direction(x1, y1, x2, y2) ==
    LET g1x0    == FSub(x2, x1)
        g1y0    == FSub(y2, y1)
        g1_norm == FSqrt(FAdd(FMul(g1x0, g1x0), FMul(g1y0, g1y0)))
        g1x     == FDiv(g1x0, g1_norm)
        g1y     == FDiv(g1x, g1_norm)
    IN  [g1x |-> g1x, g1y |-> g1y, g1_norm |-> g1_norm]

(* lines 332-336 for the point of index i                                  *)
LocalCoord(q, g, x1, y1, i) ==
    FAdd(FMul(g.g1x, FSub(q.x[i + 1], x1)), FMul(g.g1y, FSub(q.y[i + 1], y1)))

NearTransectResult(q, pt1, pt2, t, k) ==
    LET ln == LineEquation(pt1[1], pt1[2], pt2[1], pt2[2])
        np == NearPoints(q, ln, t)
        g  == Direction(pt1[1], pt1[2], pt2[1], pt2[2])
    IN  IF k = "float" /\ g.g1_norm = Zero
        THEN [status |-> "ZeroDivisionError", near_points |-> <<>>,
              local_coord |-> <<>>]
        ELSE [status |-> "ok", near_points |-> np,
              local_coord |-> [j \in 1..Len(np) |->
                                  LocalCoord(q, g, pt1[1], pt1[2], np[j])]]

(* Inputs: endpoints whose distance is rational, so that every square root *)
(* of the function is exact.                                               *)
Endpoints == { <<R(0), R(0)>>, <<R(3), R(4)>>, <<R(3), R(0)>>, <<R(0), R(4)>> }
PointChoices == { <<R(0), R(0)>>, <<R(2), R(1)>>, <<R(3), R(0)>>,
                  <<R(5), R(1)>>, <<R(3), R(4)>>, <<R(1), R(3)>> }
TolVals == {R(1), R(2)}

PointSets ==
    UNION { { [x |-> [i \in 1..n |-> c[i][1]], y |-> [i \in 1..n |-> c[i][2]]] :
                c \in [1..n -> PointChoices] } : n \in 0..MaxPts }

InitTransect ==
    /\ tp \in PointSets
    /\ point1 \in Endpoints /\ point2 \in Endpoints
    /\ tol \in TolVals
    /\ kind \in Kinds
    /\ tres = Unused
    /\ pc = "start" /\ fid = "none" /\ frame = "none"
    /\ loc = <<>> /\ ret = Unused
    /\ store = Unused /\ minimum_allowed_height = Unused
    /\ p = Unused /\ pcent = Unused
    /\ filename_list = <<>> /\ ci = 0 /\ p1 = Unused /\ cpc = Unused

(* near_transect(p, point1, point2, tol)                                   *)
NearTransect ==
    /\ pc = "start"
    /\ tres' = NearTransectResult(tp, point1, point2, tol, kind)
    /\ pc' = "done"
    /\ UNCHANGED <<tp, point1, point2, tol, kind, store,
                   minimum_allowed_height, fid, frame, loc, ret,
                   combineVars, centroidVars>>

NextTransect == NearTransect

SpecTransect == InitTransect /\ [][NextTransect]_vars

-----------------------------------------------------------------------------
(* Properties of near_transect                                             *)

Returned == pc = "done" /\ tres.status = "ok"

Dx == FSub(point2[1], point1[1])
Dy == FSub(point2[2], point1[2])
LineLength == FSqrt(FAdd(FMul(Dx, Dx), FMul(Dy, Dy)))

(* (point - endpoint1) . (endpoint2 - endpoint1)/L                         *)
UnitProjection(i) ==
    FAdd(FMul(FSub(tp.x[i + 1], point1[1]), FDiv(Dx, LineLength)),
         FMul(FSub(tp.y[i + 1], point1[2]), FDiv(Dy, LineLength)))

(* C4: for distinct endpoints the along-line coordinate of every selected  *)
(* point is the dot product of (point - endpoint1) with the unit vector    *)
(* from endpoint1 to endpoint2.                                            *)
C4_CoordinateIsUnitProjection ==
    (Returned /\ point1 # point2) =>
        \A j \in 1..Len(tres.near_points) :
            tres.local_coord[j] = UnitProjection(tres.near_points[j])

(* C5: with coinciding endpoints near_transect ends in an error and never  *)
(* returns a pair (indices, coordinates).                                  *)
C5_DegenerateTransectFails ==
    (pc = "done" /\ point1 = point2) => tres.status # "ok"

(* squared perpendicular distance of point i to the line through the       *)
(* endpoints, times L^2: the squared cross product                         *)
CrossSquared(i) ==
    LET cr == FSub(FMul(FSub(tp.x[i + 1], point1[1]), Dy),
                   FMul(FSub(tp.y[i + 1], point1[2]), Dx))
    IN  FMul(cr, cr)

WithinTol(i) ==
    IF point1 # point2
    THEN FLt(CrossSquared(i),
             FMul(FMul(tol, tol), FAdd(FMul(Dx, Dx), FMul(Dy, Dy))))
    ELSE FLt(FAbs(FSub(tp.x[i + 1], point2[1])), tol)

=============================================================================
